---- MODULE Spec2Model ----
(***************************************************************************)
(* Travel concierge host agent: the remote-agent bootstrap                 *)
(* (TravelHostAgent.create / _async_init_components), the module-level     *)
(* _get_initialized_routing_agent_sync, the send_message tool, and the     *)
(* get_response_from_agent relay generator of __main__.py.                 *)
(*                                                                         *)
(* Strings are modelled as sequences of tokens, so that json.dumps,        *)
(* "\n".join and "".join are conversions that build something and not the  *)
(* identity.  A Python dict is modelled as a sequence of <<key, value>>    *)
(* pairs in insertion order (assigning to an existing key keeps the key's  *)
(* position and replaces its value).                                       *)
(***************************************************************************)
EXTENDS Integers, Sequences, FiniteSets, TLC

\* ------------------------------------------------------------------ bounds
MaxAddrs == 2

MaxCalls == 2

MaxEvents == 2

MaxParts == 2

\* ------------------------------------------------------------ input alphabets
\* card.name / card.description values a remote agent may serve
CardNames == {"inspiration_agent", "planning_agent"}

CardDescriptions == {"d1", "d2"}

AgentCards == [name : CardNames, description : CardDescriptions]

\* agent_name arguments the LLM may pass to send_message
AgentNameArgs == CardNames \cup {"booking_agent"}

\* Outcome of one pass through the try block of the bootstrap loop:
\*   ConnectError  card_resolver.get_agent_card() raised httpx.ConnectError
\*   Exception     card_resolver.get_agent_card() raised another Exception
\*   CtorError     the card resolved, RemoteAgentConnections(card, address) raised
\*   Ok            the card resolved and the connection was constructed
ResolveOutcomes ==
    [kind : {"ConnectError", "Exception"}, card : {"none"}]
        \cup [kind : {"CtorError", "Ok"}, card : AgentCards]

VARIABLES
    pc,                         \* position of the host's life cycle
    caller,                     \* "none" | "create" | "sync": who started the bootstrap
    remote_agent_addresses,     \* argument of create / _async_init_components
    idx,                        \* position of the for loop over the addresses
    remote_agent_connections,   \* self.remote_agent_connections (ordered dict)
    cards,                      \* self.cards (ordered dict)
    agents,                     \* self.agents (string)
    attempts,                   \* history: one record per get_agent_card() attempt
    raised,                     \* exception that left the running function, or "none"
    root_agent,                 \* module-level root_agent: "unset" | "Agent" | "None"
    tool_state,                 \* tool_context.state / context.state of the session
    instruction,                \* last string root_instruction returned
    ncalls,                     \* number of send_message invocations so far
    lastCall,                   \* history: the last send_message invocation
    rpc,                        \* position of get_response_from_agent
    stream,                     \* history: events the generator received so far
    part_i,                     \* position of the for loop over event.content.parts
    out                         \* messages get_response_from_agent yielded so far

hostVars == <<pc, caller, remote_agent_addresses, idx, remote_agent_connections,
              cards, agents, attempts, raised, root_agent, tool_state,
              instruction, ncalls, lastCall>>

relayVars == <<rpc, stream, part_i, out>>

vars == <<hostVars, relayVars>>

\* ------------------------------------------------------------ ordered dicts
RECURSIVE DictKeys(_)
DictKeys(d) == IF d = <<>> THEN <<>> ELSE <<d[1][1]>> \o DictKeys(Tail(d))

RECURSIVE DictValues(_)
DictValues(d) == IF d = <<>> THEN <<>> ELSE <<d[1][2]>> \o DictValues(Tail(d))

DictKeySet(d) == {d[i][1] : i \in 1..Len(d)}

DictHas(d, k) == k \in DictKeySet(d)

DictGet(d, k) == d[CHOOSE i \in 1..Len(d) : d[i][1] = k][2]

\* d[k] = v
DictSet(d, k, v) ==
    IF DictHas(d, k)
    THEN [i \in 1..Len(d) |-> IF d[i][1] = k THEN <<k, v>> ELSE d[i]]
    ELSE Append(d, <<k, v>>)

\* ------------------------------------------------------------ strings
RECURSIVE Join(_, _)
Join(lines, sep) ==
    IF lines = <<>> THEN <<>>
    ELSE IF Len(lines) = 1 THEN lines[1]
    ELSE lines[1] \o <<sep>> \o Join(Tail(lines), sep)

\* json.dumps({"name": card.name, "description": card.description})
JsonDumps(card) ==
    <<"{\"name\": \"", card.name, "\", \"description\": \"", card.description, "\"}">>

RECURSIVE AgentInfo(_)
AgentInfo(cardValues) ==
    IF cardValues = <<>> THEN <<>>
    ELSE <<JsonDumps(cardValues[1])>> \o AgentInfo(Tail(cardValues))

NoAgentsFound == <<"No agents found">>

\* Faulty variant: no fallback text for an empty list
AgentsStringNoFallback(cardDict) == Join(AgentInfo(DictValues(cardDict)), "\n")

AgentsString(cardDict) ==
    LET agent_info == AgentInfo(DictValues(cardDict))
    IN  IF agent_info # <<>> THEN Join(agent_info, "\n") ELSE NoAgentsFound

\* ------------------------------------------------------------ bootstrap
RemoteAgentConnections(card, address) == [card |-> card, address |-> address]

remote_agent_urls == <<"http://0.0.0.0:10001">>

\* Argument lists of create: n distinct addresses, n = 0..MaxAddrs
Address(i) == <<"http://localhost:", 10000 + i>>

AddressLists == {[i \in 1..n |-> Address(i)] : n \in 0..MaxAddrs}

NoCall == [agent_name |-> "none", sent |-> <<>>,
           response |-> [root |-> "none", result |-> "none"],
           result |-> <<>>, state_before |-> [none |-> TRUE]]

HostInit ==
    /\ pc = "start"
    /\ caller = "none"
    /\ remote_agent_addresses = <<>>
    /\ idx = 1
    /\ remote_agent_connections = <<>>
    /\ cards = <<>>
    /\ agents = <<>>
    /\ attempts = <<>>
    /\ raised = "none"
    /\ root_agent = "unset"
    /\ tool_state \in [active_agent : {"absent"},
                       session_id : {"absent"},
                       session_active : {"absent"},
                       task_id : {"absent", "t1"},
                       context_id : {"absent", "c1"}]
    /\ instruction = <<>>
    /\ ncalls = 0
    /\ lastCall = NoCall

\* TravelHostAgent.create(addresses): cls(task_callback), then the loop
Create(addresses) ==
    /\ pc = "start"
    /\ pc' = "init_loop"
    /\ caller' = "create"
    /\ remote_agent_addresses' = addresses
    /\ idx' = 1
    /\ remote_agent_connections' = <<>>
    /\ cards' = <<>>
    /\ agents' = <<>>
    /\ UNCHANGED <<attempts, raised, root_agent, tool_state, instruction,
                   ncalls, lastCall, relayVars>>

\* What one pass of the loop body leaves in the two dicts
StoreConnection(conns, o, address) ==
    IF o.kind = "Ok"
    THEN DictSet(conns, o.card.name, RemoteAgentConnections(o.card, address))
    ELSE conns

\* Faulty variant: a name already stored keeps its first card
StoreCardKeepFirst(cardDict, o) ==
    IF o.kind = "Ok" /\ ~DictHas(cardDict, o.card.name)
    THEN DictSet(cardDict, o.card.name, o.card)
    ELSE cardDict

StoreCard(cardDict, o) ==
    IF o.kind = "Ok" THEN DictSet(cardDict, o.card.name, o.card) ELSE cardDict

\* Faulty variant: only httpx.ConnectError is caught
AfterPassConnectErrorOnly(o) ==
    IF o.kind = "Ok" THEN "next"
    ELSE IF o.kind = "ConnectError" THEN "next"
    ELSE "raise"

\* How a pass leaves the try statement: httpx.ConnectError is caught by the
\* first except clause, every other Exception (of the resolver or of the
\* RemoteAgentConnections constructor) by the second; both print and fall
\* through to the next address.
AfterPass(o) ==
    IF o.kind = "Ok" THEN "next"
    ELSE IF o.kind = "ConnectError" THEN "next"
    ELSE "next"

\* One pass of the loop over remote_agent_addresses
ResolveAddress(o) ==
    /\ pc = "init_loop"
    /\ idx <= Len(remote_agent_addresses)
    /\ LET address == remote_agent_addresses[idx]
       IN  /\ attempts' = Append(attempts, [address |-> address, pos |-> idx,
                                            outcome |-> o])
           /\ remote_agent_connections' =
                  StoreConnection(remote_agent_connections, o, address)
           /\ cards' = StoreCard(cards, o)
    /\ IF AfterPass(o) = "next"
       THEN /\ idx' = idx + 1
            /\ UNCHANGED <<pc, raised>>
       ELSE /\ pc' = "loaded"
            /\ raised' = o.kind
            /\ UNCHANGED idx
    /\ UNCHANGED <<caller, remote_agent_addresses, agents, root_agent,
                   tool_state, instruction, ncalls, lastCall, relayVars>>

\* End of the loop: self.agents is built, _async_init_components returns and
\* create returns the instance.
FinishInit ==
    /\ pc = "init_loop"
    /\ idx > Len(remote_agent_addresses)
    /\ agents' = AgentsString(cards)
    /\ pc' = IF caller = "sync" THEN "async_main" ELSE "ready"
    /\ UNCHANGED <<caller, remote_agent_addresses, idx, remote_agent_connections,
                   cards, attempts, raised, root_agent, tool_state, instruction,
                   ncalls, lastCall, relayVars>>

\* ------------------------------------------------------------ module load
\* What _get_initialized_routing_agent_sync does with a RuntimeError of
\* asyncio.run: on the "running event loop" message it prints a warning and
\* falls off the end of the function (the fallback that built an agent is
\* commented out), so it returns None; any other RuntimeError is re-raised.
SyncExcept(loopMessage) ==
    IF loopMessage
    THEN [returned |-> "None", raised |-> "none"]
    ELSE [returned |-> "unset", raised |-> "RuntimeError"]

\* root_agent = _get_initialized_routing_agent_sync(), asyncio.run refusing to
\* start because an event loop is already running
SyncLoopRunning ==
    /\ pc = "start"
    /\ caller' = "sync"
    /\ root_agent' = SyncExcept(TRUE).returned
    /\ raised' = SyncExcept(TRUE).raised
    /\ pc' = "loaded"
    /\ UNCHANGED <<remote_agent_addresses, idx, remote_agent_connections, cards,
                   agents, attempts, tool_state, instruction, ncalls, lastCall,
                   relayVars>>

\* asyncio.run(_async_main()) starts: TravelHostAgent.create(remote_agent_urls)
SyncStart ==
    /\ pc = "start"
    /\ caller' = "sync"
    /\ remote_agent_addresses' = remote_agent_urls
    /\ idx' = 1
    /\ remote_agent_connections' = <<>>
    /\ cards' = <<>>
    /\ agents' = <<>>
    /\ pc' = "init_loop"
    /\ UNCHANGED <<attempts, raised, root_agent, tool_state, instruction, ncalls,
                   lastCall, relayVars>>

\* _async_main ends: host_agent.create_agent() returns the Agent, or the
\* coroutine raised (a RuntimeError is caught and re-raised, anything else is
\* not caught at all)
AsyncMainReturn(outcome) ==
    /\ pc = "async_main"
    /\ IF outcome = "Agent"
       THEN /\ root_agent' = "Agent"
            /\ raised' = raised
            /\ pc' = "ready"
       ELSE /\ root_agent' = IF outcome = "RuntimeError"
                             THEN SyncExcept(FALSE).returned ELSE "unset"
            /\ raised' = IF outcome = "RuntimeError"
                         THEN SyncExcept(FALSE).raised ELSE outcome
            /\ pc' = "loaded"
    /\ UNCHANGED <<caller, remote_agent_addresses, idx, remote_agent_connections,
                   cards, agents, attempts, tool_state, instruction, ncalls,
                   lastCall, relayVars>>

\* ------------------------------------------------------------ system prompt
check_active_agent(state) ==
    IF /\ state.session_id # "absent"
       /\ state.session_active # "absent"
       /\ state.session_active = "True"
       /\ state.active_agent # "absent"
    THEN [active_agent |-> state.active_agent]
    ELSE [active_agent |-> "None"]

AgentsHeader == "**Available Remote A2A Agents:**"

ContextHeader == "**Current Context:**"

\* The agent list as it is placed in the f-string
EmbedAgents(agentsString) == agentsString

\* The session state of the model carries no "user_profile" or "itinerary"
\* key, so state.get returns the defaults.
root_instruction(state) ==
    LET current_agent == check_active_agent(state)
    IN  <<"**Role:** ... **Core Responsibilities:** ...", AgentsHeader>>
            \o EmbedAgents(agents)
            \o <<ContextHeader, "Current Time: ", "now",
                 "User Profile:", "No user profile available",
                 "Trip Information:",
                 "Destination: ", "Not determined",
                 "Start Date: ", "Not set",
                 "End Date: ", "Not set",
                 "Active Agent: ", current_agent.active_agent,
                 "**Decision Logic:** ... **Key Directives:** ...">>

\* TravelHostAgent.before_model_callback: marks the session active and gives it
\* an id.  session_active is "absent", "True" or "False".
before_model_callback(state) ==
    IF state.session_active = "absent" \/ state.session_active = "False"
    THEN [state EXCEPT !.session_id = IF @ = "absent" THEN "uuid4" ELSE @,
                       !.session_active = "True"]
    ELSE state

\* The callbacks create_agent hands to Agent(...): instruction, tools and
\* before_agent_callback (_load_precreated_itinerary, which loads the trip
\* scenario); before_model_callback is not among them.
RegisteredCallbacks == {"before_agent_callback"}

\* The session state as the framework leaves it around a model call
StateBeforeModel(state) ==
    IF "before_model_callback" \in RegisteredCallbacks
    THEN before_model_callback(state)
    ELSE state

\* The framework asks for the instruction before a model call, then runs the
\* registered model callbacks
RootInstruction ==
    /\ pc = "ready"
    /\ instruction' = root_instruction(tool_state)
    /\ tool_state' = StateBeforeModel(tool_state)
    /\ pc' = "prompted"
    /\ UNCHANGED <<caller, remote_agent_addresses, idx, remote_agent_connections,
                   cards, agents, attempts, raised, root_agent, ncalls,
                   lastCall, relayVars>>

\* ------------------------------------------------------------ send_message
\* What client.send_message may give back: a JSON-RPC error response, a success
\* response carrying a Task, a success response carrying a Message, or an
\* exception of the transport.
SendResponses ==
    { [root |-> "JSONRPCErrorResponse", result |-> "none"],
      [root |-> "SendMessageSuccessResponse", result |-> "Task"],
      [root |-> "SendMessageSuccessResponse", result |-> "Message"],
      [root |-> "raise", result |-> "none"] }

KnownAgent(agent_name) == DictHas(remote_agent_connections, agent_name)

\* state["x"] if "x" in state else str(uuid.uuid4())
StateOrUuid(v) == IF v # "absent" THEN v ELSE "uuid4"

\* Faulty variant: the request is sent a second time when the answer is no success
RemoteSendsRetry(agent_name, state, response) ==
    LET request == [client |-> DictGet(remote_agent_connections, agent_name),
                    id |-> "uuid4",
                    message |-> [role |-> "user",
                                 parts |-> <<[type |-> "text", text |-> "task"]>>,
                                 messageId |-> "uuid4",
                                 taskId |-> StateOrUuid(state.task_id),
                                 contextId |-> StateOrUuid(state.context_id)]]
    IN  IF ~KnownAgent(agent_name) THEN <<>>
        ELSE IF response.root = "SendMessageSuccessResponse" THEN <<request>>
        ELSE <<request, request>>

\* The requests one invocation of send_message hands to the remote client
RemoteSends(agent_name, state, response) ==
    IF ~KnownAgent(agent_name) THEN <<>>
    ELSE << [client |-> DictGet(remote_agent_connections, agent_name),
             id |-> "uuid4",
             message |-> [role |-> "user",
                          parts |-> <<[type |-> "text", text |-> "task"]>>,
                          messageId |-> "uuid4",
                          taskId |-> StateOrUuid(state.task_id),
                          contextId |-> StateOrUuid(state.context_id)]] >>

\* Faulty variant: active_agent is written before the agent is looked up
StateAfterSendEarlyWrite(agent_name, state) ==
    [state EXCEPT !.active_agent = agent_name]

\* The state after the invocation: the unknown-agent check comes first
StateAfterSend(agent_name, state) ==
    IF ~KnownAgent(agent_name) THEN state
    ELSE [state EXCEPT !.active_agent = agent_name]

\* Faulty variant: the result is returned without the isinstance(..., Task) check
SendResultNoTaskCheck(agent_name, response) ==
    IF ~KnownAgent(agent_name) THEN <<"ValueError", "Agent ", agent_name, " not found">>
    ELSE IF response.root = "raise" THEN <<"raise">>
    ELSE IF response.root # "SendMessageSuccessResponse" THEN <<"None">>
    ELSE <<response.result>>

\* What the invocation returns or raises
SendResult(agent_name, response) ==
    IF ~KnownAgent(agent_name) THEN <<"ValueError", "Agent ", agent_name, " not found">>
    ELSE IF response.root = "raise" THEN <<"raise">>
    ELSE IF response.root # "SendMessageSuccessResponse" THEN <<"None">>
    ELSE IF response.result # "Task" THEN <<"None">>
    ELSE <<response.result>>

\* The tool call send_message(agent_name, task, tool_context); a RemoteAgentConnections
\* object is always truthy, so "Client not available" is never raised.
SendMessage(agent_name, response) ==
    /\ pc = "prompted"
    /\ ncalls < MaxCalls
    /\ ncalls' = ncalls + 1
    /\ tool_state' = StateAfterSend(agent_name, tool_state)
    /\ lastCall' = [agent_name |-> agent_name,
                    sent |-> RemoteSends(agent_name, tool_state, response),
                    response |-> IF KnownAgent(agent_name) THEN response
                                 ELSE [root |-> "none", result |-> "none"],
                    result |-> SendResult(agent_name, response),
                    state_before |-> tool_state]
    /\ pc' = "ready"
    /\ UNCHANGED <<caller, remote_agent_addresses, idx, remote_agent_connections,
                   cards, agents, attempts, raised, root_agent, instruction,
                   relayVars>>

\* ------------------------------------------------------------ relay generator
\* Parts of event.content.parts.  function_call / function_response are "none"
\* or a record; text is a token sequence, <<>> being the empty (falsy) string.
NoText == <<>>

\* Python None in a field that otherwise holds an object
None == [none |-> TRUE]

\* a part that carries a call and, beside it, a response (not a dict with a
\* "response" key) and text
CallPart == [function_call |-> [name |-> "send_message"],
             function_response |-> [name |-> "send_message", response |-> <<"raw">>],
             text |-> <<"a">>]

ResponsePart == [function_call |-> None,
                 function_response |-> [name |-> "send_message",
                                        response |-> <<"response", "task">>],
                 text |-> NoText]

TextPart == [function_call |-> None, function_response |-> None, text |-> <<"b">>]

Parts == {CallPart, ResponsePart, TextPart}

PartLists == UNION {[1..n -> Parts] : n \in 0..MaxParts}

\* Events of the runner: content.parts (<<>> also stands for content = None),
\* the verdict of is_final_response(), actions.escalate and error_message
\* ("" also stands for None).  escalate and error_message are read in the
\* final-response block only, so they vary on final events only.
Events ==
    { e \in [parts : PartLists, final : BOOLEAN, escalate : BOOLEAN,
             error_message : {"", "quota"}] :
        /\ e.error_message # "" => e.escalate
        /\ e.escalate => e.final }

ErrorContent ==
    <<"An error occurred while processing your request. Please check the server logs for details.">>

Message(content) == [role |-> "assistant", content |-> content]

\* response_content["response"] when it is a dict with that key, else itself
FormattedResponseData(response_content) ==
    IF Len(response_content) = 2 /\ response_content[1] = "response"
    THEN <<response_content[2]>>
    ELSE response_content

ToolCallMessage(part) ==
    Message(<<"Tool Call: ", part.function_call.name, "<fence python>", part.function_call,
              "<fence>">>)

ToolResponseMessage(part) ==
    Message(<<"Tool Response from ", part.function_response.name, "<fence json>">>
                \o FormattedResponseData(part.function_response.response)
                \o <<"<fence>">>)

\* Faulty variant: the function_response test comes first
PartMessagesResponseFirst(part) ==
    IF part.function_response # None THEN <<ToolResponseMessage(part)>>
    ELSE IF part.function_call # None THEN <<ToolCallMessage(part)>>
    ELSE <<>>

\* The messages the body of for part in event.content.parts yields for one part
PartMessages(part) ==
    IF part.function_call # None THEN <<ToolCallMessage(part)>>
    ELSE IF part.function_response # None THEN <<ToolResponseMessage(part)>>
    ELSE <<>>

\* "".join([p.text for p in parts if p.text])
RECURSIVE JoinTexts(_)
JoinTexts(parts) ==
    IF parts = <<>> THEN NoText
    ELSE (IF parts[1].text # NoText THEN parts[1].text ELSE NoText)
             \o JoinTexts(Tail(parts))

final_response_text(event) ==
    IF event.parts # <<>> THEN JoinTexts(event.parts)
    ELSE IF event.escalate
    THEN <<"Agent escalated: ",
           IF event.error_message # "" THEN event.error_message
           ELSE "No specific message.">>
    ELSE NoText

\* The messages the if event.is_final_response(): block yields
FinalMessages(event) ==
    IF event.final /\ final_response_text(event) # NoText
    THEN <<Message(final_response_text(event))>>
    ELSE <<>>

\* Faulty variant: no break after a final response
AfterEventNoBreak(event) == "iterate"

\* Where the generator goes after the parts of an event: break on a final
\* response, else the next iteration
AfterEvent(event) == IF event.final THEN "done" ELSE "iterate"

\* Faulty variant: the except clause only logs
ExceptMessagesNone == <<>>

\* What the except clause yields
ExceptMessages == <<Message(ErrorContent)>>

RelayInit ==
    /\ rpc = "idle"
    /\ stream = <<>>
    /\ part_i = 1
    /\ out = <<>>

\* get_response_from_agent(message, history) is called and run_async returns
\* the event iterator
RunAsync ==
    /\ rpc = "idle"
    /\ rpc' = "iterate"
    /\ UNCHANGED <<stream, part_i, out, hostVars>>

\* Exceptions of the runner (subclasses of Exception) and the clause that
\* takes them: except Exception catches each; "raised" would be the exception
\* leaving the generator.
RunnerExceptions == {"RuntimeError", "ValueError"}

ExceptClause(exc) == "except"

\* The runner raises: at run_async or at a step of async for
RunnerRaises(exc) ==
    /\ rpc \in {"idle", "iterate"}
    /\ rpc' = ExceptClause(exc)
    /\ UNCHANGED <<stream, part_i, out, hostVars>>

\* async for delivers the next event
NextEvent(event) ==
    /\ rpc = "iterate"
    /\ Len(stream) < MaxEvents
    /\ stream' = Append(stream, event)
    /\ part_i' = 1
    /\ rpc' = "parts"
    /\ UNCHANGED <<out, hostVars>>

\* The iterator is exhausted without a final response
StreamEnds ==
    /\ rpc = "iterate"
    /\ rpc' = "done"
    /\ UNCHANGED <<stream, part_i, out, hostVars>>

\* One pass of for part in event.content.parts
RelayPart ==
    /\ rpc = "parts"
    /\ LET event == stream[Len(stream)]
       IN  /\ part_i <= Len(event.parts)
           /\ out' = out \o PartMessages(event.parts[part_i])
    /\ part_i' = part_i + 1
    /\ UNCHANGED <<rpc, stream, hostVars>>

\* After the parts: the final-response block
RelayFinal ==
    /\ rpc = "parts"
    /\ LET event == stream[Len(stream)]
       IN  /\ part_i > Len(event.parts)
           /\ out' = out \o FinalMessages(event)
           /\ rpc' = AfterEvent(event)
    /\ UNCHANGED <<stream, part_i, hostVars>>

\* except Exception: print, traceback, yield the error message
RelayExcept ==
    /\ rpc = "except"
    /\ out' = out \o ExceptMessages
    /\ rpc' = "failed"
    /\ UNCHANGED <<stream, part_i, hostVars>>

\* ------------------------------------------------------------ specifications
Init == HostInit /\ RelayInit

HostNext ==
    \/ \E addresses \in AddressLists : Create(addresses)
    \/ SyncLoopRunning
    \/ SyncStart
    \/ \E o \in ResolveOutcomes : ResolveAddress(o)
    \/ FinishInit
    \/ \E outcome \in {"Agent", "RuntimeError", "Exception"} : AsyncMainReturn(outcome)
    \/ RootInstruction
    \/ \E agent_name \in AgentNameArgs, response \in SendResponses :
           SendMessage(agent_name, response)

RelayNext ==
    \/ RunAsync
    \/ \E exc \in RunnerExceptions : RunnerRaises(exc)
    \/ \E event \in Events : NextEvent(event)
    \/ StreamEnds
    \/ RelayPart
    \/ RelayFinal
    \/ RelayExcept

\* The host agent: module load or create, then the turns of a session
Spec == Init /\ [][HostNext]_vars

\* One call of get_response_from_agent, the host left as it is
RelaySpecInit ==
    /\ HostInit
    /\ tool_state.task_id = "absent"
    /\ tool_state.context_id = "absent"
    /\ RelayInit

RelaySpec == RelaySpecInit /\ [][RelayNext]_vars

\* ------------------------------------------------------------ properties
Range(f) == {f[i] : i \in DOMAIN f}

\* TravelHostAgent.create has returned its instance
CreateReturned == pc \in {"async_main", "ready", "prompted"}

\* Positions of the address list by what happened there
OkPositions == {i \in 1..Len(attempts) : attempts[i].outcome.kind = "Ok"}

ResolvedPositions ==
    {i \in 1..Len(attempts) : attempts[i].outcome.kind \in {"Ok", "CtorError"}}

FailedPositions == {i \in 1..Len(attempts) : attempts[i].outcome.kind # "Ok"}

\* Both dicts hold, under the card name of position j, what position j built
HoldsEntryOf(j) ==
    LET o == attempts[j].outcome
    IN  /\ <<o.card.name, o.card>> \in Range(cards)
        /\ <<o.card.name, RemoteAgentConnections(o.card, attempts[j].address)>>
               \in Range(remote_agent_connections)

\* The last position of S with the card name of position i
IsLastOfName(S, i) ==
    \A j \in S : attempts[j].outcome.card.name = attempts[i].outcome.card.name => j <= i

KeySetsOfSucceeded ==
    /\ DictKeySet(remote_agent_connections) = DictKeySet(cards)
    /\ DictKeySet(cards) = {attempts[i].outcome.card.name : i \in OkPositions}
    /\ Len(cards) = Cardinality(DictKeySet(cards))
    /\ Len(remote_agent_connections) = Cardinality(DictKeySet(remote_agent_connections))

\* C2 as stated: after create returns, the two dicts have the same key set,
\* which is the set of card names of the addresses whose resolution and
\* construction both succeeded, and among the addresses that resolve to one
\* card name (a name that is a key at all) both dicts hold the entry of the
\* latest.
C2_LaterResolvedWins ==
    CreateReturned =>
        /\ KeySetsOfSucceeded
        /\ \A i, j \in ResolvedPositions :
               /\ i < j
               /\ attempts[i].outcome.card.name = attempts[j].outcome.card.name
               /\ IsLastOfName(ResolvedPositions, j)
               /\ DictHas(cards, attempts[j].outcome.card.name)
               => HoldsEntryOf(j)

\* C2 amended: the same, the entry being that of the latest address among
\* those whose resolution and construction both succeeded.
C2_LaterSucceededWins ==
    CreateReturned =>
        /\ KeySetsOfSucceeded
        /\ \A i \in OkPositions : IsLastOfName(OkPositions, i) => HoldsEntryOf(i)

C2_Witness ==
    /\ CreateReturned
    /\ \E i, j \in OkPositions :
           /\ i < j
           /\ attempts[i].outcome.card.name = attempts[j].outcome.card.name
           /\ attempts[i].outcome.card # attempts[j].outcome.card

\* C3: a failed pass of the bootstrap loop leaves no entry in either dict
\* (every entry comes from an address that succeeded), the loop goes on to
\* every later address in list order, and no exception leaves create.
C3_FailureIsSkipped ==
    /\ \A k \in 1..Len(remote_agent_connections) :
           \E i \in OkPositions :
               remote_agent_connections[k] =
                   <<attempts[i].outcome.card.name,
                     RemoteAgentConnections(attempts[i].outcome.card, attempts[i].address)>>
    /\ \A k \in 1..Len(cards) :
           \E i \in OkPositions :
               cards[k] = <<attempts[i].outcome.card.name, attempts[i].outcome.card>>
    /\ \A i \in 1..Len(attempts) :
           /\ attempts[i].pos = i
           /\ attempts[i].address = remote_agent_addresses[i]
    /\ pc = "init_loop" => Len(attempts) = idx - 1
    /\ CreateReturned => Len(attempts) = Len(remote_agent_addresses)
    /\ raised # "none" => caller = "sync" /\ idx > Len(remote_agent_addresses)

C3_Witness ==
    /\ CreateReturned
    /\ \E i \in FailedPositions, j \in OkPositions :
           /\ i < j
           /\ attempts[i].outcome.kind = "CtorError"
           /\ attempts[i].outcome.card.name # attempts[j].outcome.card.name
    /\ Len(cards) = 1

\* The known-agent test of the last send_message invocation (the connections
\* do not change after the bootstrap)
LastCallKnown == DictHas(remote_agent_connections, lastCall.agent_name)

IsTaskSuccess(response) ==
    response.root = "SendMessageSuccessResponse" /\ response.result = "Task"

\* C5: for a known agent and a response of the remote agent, send_message
\* returns the Task if and only if the response is a success response whose
\* result is a Task, and returns None (raising nothing) otherwise.
C5_BadShapeReturnsNone ==
    (ncalls > 0 /\ LastCallKnown /\ lastCall.response.root # "raise") =>
        /\ lastCall.result = <<"Task">> <=> IsTaskSuccess(lastCall.response)
        /\ ~IsTaskSuccess(lastCall.response) => lastCall.result = <<"None">>

C5_Witness ==
    /\ ncalls > 0
    /\ LastCallKnown
    /\ lastCall.response = [root |-> "SendMessageSuccessResponse", result |-> "Message"]
    /\ lastCall.result = <<"None">>

\* The lines of a string (split at "\n")
RECURSIVE SplitLines(_)
SplitLines(str) ==
    IF \A i \in 1..Len(str) : str[i] # "\n" THEN <<str>>
    ELSE LET n == CHOOSE i \in 1..Len(str) :
                      str[i] = "\n" /\ \A j \in 1..(i - 1) : str[j] # "\n"
         IN  <<SubSeq(str, 1, n - 1)>> \o SplitLines(SubSeq(str, n + 1, Len(str)))

\* The text root_instruction places between the two headers
EmbeddedAgents(instr) ==
    LET a == CHOOSE i \in 1..Len(instr) : instr[i] = AgentsHeader
        b == CHOOSE i \in 1..Len(instr) : instr[i] = ContextHeader
    IN  SubSeq(instr, a + 1, b - 1)

\* C6: after the bootstrap self.agents is "No agents found" iff no card was
\* stored, else one JSON line (name, description) per entry of cards in
\* insertion order; root_instruction embeds the string unchanged.
C6_AgentListReflectsCards ==
    CreateReturned =>
        /\ agents = <<"No agents found">> <=> cards = <<>>
        /\ cards # <<>> =>
               /\ Len(SplitLines(agents)) = Len(cards)
               /\ \A i \in 1..Len(cards) :
                      SplitLines(agents)[i] =
                          <<"{\"name\": \"", cards[i][2].name,
                            "\", \"description\": \"", cards[i][2].description, "\"}">>
        /\ pc = "prompted" => EmbeddedAgents(instruction) = agents

C6_Witness ==
    /\ pc = "prompted"
    /\ Len(cards) = 2
    /\ cards[1][2].description # cards[2][2].description

\* C7: no retries.  Each address of the list gets exactly one resolution
\* attempt, failed or not, and one send_message invocation sends exactly one
\* request for a known agent and none for an unknown one, whatever the answer.
C7_NoRetries ==
    /\ \A i \in 1..Len(attempts) : attempts[i].pos = i
    /\ Len(attempts) <= Len(remote_agent_addresses)
    /\ CreateReturned => Len(attempts) = Len(remote_agent_addresses)
    /\ ncalls > 0 => Len(lastCall.sent) = IF LastCallKnown THEN 1 ELSE 0

C7_Witness ==
    /\ ncalls > 0
    /\ LastCallKnown
    /\ lastCall.response.root = "JSONRPCErrorResponse"
    /\ FailedPositions # {}
    /\ Len(lastCall.sent) = 1

\* C8: send_message with an agent_name that is no key of
\* remote_agent_connections raises ValueError("Agent <name> not found"), sends
\* nothing and leaves the session state as it was.
C8_UnknownAgentRaises ==
    (ncalls > 0 /\ ~LastCallKnown) =>
        /\ lastCall.result = <<"ValueError", "Agent ", lastCall.agent_name, " not found">>
        /\ lastCall.sent = <<>>
        /\ tool_state = lastCall.state_before

C8_Witness ==
    /\ ncalls = 2
    /\ ~LastCallKnown
    /\ tool_state.active_agent \in CardNames
    /\ lastCall.agent_name \in CardNames

\* C10: _get_initialized_routing_agent_sync has either returned an Agent or
\* raised, also when asyncio.run refused to start under a running event loop.
C10_SyncReturnsAgentOrRaises ==
    (caller = "sync" /\ pc \in {"loaded", "ready", "prompted"}) =>
        root_agent = "Agent" \/ raised # "none"

\* ------------------------------------------------------------ relay properties
\* The messages relayed from events: out without the message of the except clause
Relayed == IF rpc = "failed" THEN SubSeq(out, 1, Len(out) - 1) ELSE out

KindOf(m) ==
    IF m.content[1] = "Tool Call: " THEN "call"
    ELSE IF m.content[1] = "Tool Response from " THEN "response"
    ELSE "text"

\* C1: an exception of the runner or of the event iteration never leaves the
\* generator: raising retracts nothing, the except clause yields exactly the one
\* error message after what was yielded before, and the generator ends there.
C1_ExceptionYieldsOneErrorMessage ==
    [][ /\ rpc' # "raised"
        /\ rpc' = "except" => out' = out
        /\ rpc = "except" =>
               /\ rpc' = "failed"
               /\ out' = Append(out, [role |-> "assistant", content |-> ErrorContent])
        /\ rpc # "failed" ]_vars

C1_Witness ==
    /\ rpc = "failed"
    /\ Len(out) >= 2
    /\ out[Len(out)].content = ErrorContent
    /\ KindOf(out[1]) = "call"

\* What is expected of one part: a part with a function call gives one
\* Tool Call, a part with a function response and no call one Tool Response
ToolSignature(part) ==
    IF part.function_call # None
    THEN <<<<"Tool Call: ", part.function_call.name>>>>
    ELSE IF part.function_response # None
    THEN <<<<"Tool Response from ", part.function_response.name>>>>
    ELSE <<>>

RECURSIVE ToolSignatures(_, _)
ToolSignatures(parts, n) ==
    IF n = 0 THEN <<>>
    ELSE ToolSignatures(parts, n - 1) \o ToolSignature(parts[n])

\* Parts of event k the generator has passed
PartsPassed(k) == IF k = Len(stream) THEN part_i - 1 ELSE Len(stream[k].parts)

RECURSIVE SignaturesUpTo(_)
SignaturesUpTo(k) ==
    IF k = 0 THEN <<>>
    ELSE SignaturesUpTo(k - 1) \o ToolSignatures(stream[k].parts, PartsPassed(k))

StreamSignatures == SignaturesUpTo(Len(stream))

ToolMessagesOf(msgs) == SelectSeq(msgs, LAMBDA m : KindOf(m) # "text")

\* C4: the tool messages are, in order, one per call part and one per
\* response-only part of the events received, in the order of the events and of
\* the parts; a text message comes after every tool message; every message has
\* role assistant.
C4_ToolEventsInOrder ==
    /\ LET tools == ToolMessagesOf(Relayed)
       IN  [k \in 1..Len(tools) |-> <<tools[k].content[1], tools[k].content[2]>>]
               = StreamSignatures
    /\ \A k \in 1..(Len(Relayed) - 1) : KindOf(Relayed[k]) # "text"
    /\ \A k \in 1..Len(out) : out[k].role = "assistant"

C4_Witness ==
    /\ rpc = "done"
    /\ Len(stream) = 2
    /\ stream[1].parts = <<CallPart, ResponsePart>>
    /\ stream[2].parts = <<ResponsePart, TextPart>>
    /\ Len(out) = 4

\* The final text expected of a final event
RECURSIVE TextsUpTo(_, _)
TextsUpTo(parts, n) ==
    IF n = 0 THEN <<>> ELSE TextsUpTo(parts, n - 1) \o parts[n].text

TextsOf(parts) == TextsUpTo(parts, Len(parts))

ClaimedFinalText(event) ==
    IF Len(event.parts) > 0 THEN TextsOf(event.parts)
    ELSE IF event.escalate
    THEN <<"Agent escalated: ",
           IF event.error_message = "" THEN "No specific message."
           ELSE event.error_message>>
    ELSE <<>>

TextMessagesOf(msgs) == SelectSeq(msgs, LAMBDA m : KindOf(m) = "text")

\* C9: the generator stops at the first final-response event: no event follows
\* it, the call yields at most one final text message, and that message is the
\* concatenation of the event's texts (parts present) or the escalation text (no
\* parts, escalate); an empty text yields no final message.
C9_StopsAtFirstFinal ==
    /\ \A k \in 1..(Len(stream) - 1) : ~stream[k].final
    /\ Len(TextMessagesOf(Relayed)) <= 1
    /\ TextMessagesOf(Relayed) # <<>> =>
           rpc = "done" /\ Len(stream) > 0 /\ stream[Len(stream)].final
    /\ (Len(stream) > 0 /\ stream[Len(stream)].final /\ rpc # "parts") =>
           /\ rpc = "done"
           /\ ~ENABLED RelayNext
           /\ LET text == ClaimedFinalText(stream[Len(stream)])
              IN  IF text # <<>>
                  THEN /\ out # <<>>
                       /\ out[Len(out)] = [role |-> "assistant", content |-> text]
                  ELSE TextMessagesOf(out) = <<>>

C9_Witness ==
    /\ rpc = "done"
    /\ Len(stream) = 2
    /\ stream[2].final
    /\ stream[2].parts = <<CallPart, TextPart>>
    /\ out[Len(out)].content = <<"a", "b">>

\* The agent the prompt names after "Active Agent: "
ReportedActiveAgent(instr) ==
    instr[1 + CHOOSE i \in 1..Len(instr) : instr[i] = "Active Agent: "]

\* C11: the system prompt that follows a send_message call to a known agent X
\* reports "Active Agent: X"; a prompt built before any send_message reports
\* "Active Agent: None".
C11_PromptReportsActiveAgent ==
    pc = "prompted" =>
        /\ ncalls = 0 => ReportedActiveAgent(instruction) = "None"
        /\ (ncalls > 0 /\ LastCallKnown) =>
               ReportedActiveAgent(instruction) = lastCall.agent_name

====
